---- MODULE Spec2Model ----
(***************************************************************************)
(* Model of the flamechart Trace component.                                *)
(*                                                                         *)
(* Two revisions of the component are in the sources:                      *)
(*   - src/src/Trace.js        (variant "Trace"): viewport state, keyboard *)
(*     handler, _handleStateChange / _handleSelectionChange callbacks      *)
(*     handed to the renderers, zoom clamped to viewportWidth/size;        *)
(*   - src/unnamed/part_000    (variant "Canvas"): the same component with *)
(*     the canvas pointer handlers, sliders and buttons inline, zoom       *)
(*     clamped to the constant MIN_ZOOM.                                   *)
(* Definitions that exist only in part_000 carry the suffix P0 when the    *)
(* name is also used by Trace.js.                                          *)
(*                                                                         *)
(* JavaScript numbers are modelled as exact rationals <<n, d>> (d > 0, in  *)
(* lowest terms) extended with the IEEE specials: <<1, 0>> is +Infinity,   *)
(* <<-1, 0>> is -Infinity and <<0, 0>> is NaN.  Rounding and the sign of   *)
(* zero are not modelled (0 is +0).                                        *)
(***************************************************************************)
EXTENDS Integers, Sequences, FiniteSets, TLC

\* ------------------------------------------------------------ numbers

RECURSIVE GCD(_, _)
GCD(a, b) == IF b = 0 THEN a ELSE GCD(b, a % b)

Abs(a) == IF a < 0 THEN -a ELSE a

Sign(a) == IF a < 0 THEN -1 ELSE IF a > 0 THEN 1 ELSE 0

NaN == <<0, 0>>
PosInf == <<1, 0>>
NegInf == <<-1, 0>>

\* the rational n/d, d # 0, in lowest terms with a positive denominator
Rat(n, d) ==
  LET g == GCD(Abs(n), Abs(d))
      s == IF d < 0 THEN -1 ELSE 1
  IN  <<s * (n \div g), Abs(d) \div g>>

N(i) == <<i, 1>>

IsNaN(x) == x = NaN
IsFinite(x) == x[2] > 0
IsInf(x) == x[2] = 0 /\ x[1] # 0
IsZero(x) == x[2] > 0 /\ x[1] = 0

Neg(x) == <<-x[1], x[2]>>

Add(x, y) ==
  IF IsNaN(x) \/ IsNaN(y) THEN NaN
  ELSE IF IsInf(x) THEN (IF IsInf(y) /\ y # x THEN NaN ELSE x)
  ELSE IF IsInf(y) THEN y
  ELSE LET g == GCD(x[2], y[2])   \* over the least common denominator
       IN  Rat(x[1] * (y[2] \div g) + y[1] * (x[2] \div g),
               (x[2] \div g) * y[2])

Sub(x, y) == Add(x, Neg(y))

Mul(x, y) ==
  IF IsNaN(x) \/ IsNaN(y) THEN NaN
  ELSE IF IsInf(x) \/ IsInf(y)
       THEN (IF IsZero(x) \/ IsZero(y) THEN NaN
             ELSE <<Sign(x[1]) * Sign(y[1]), 0>>)
  ELSE LET g1 == GCD(Abs(x[1]), y[2])   \* cancel before multiplying
           g2 == GCD(Abs(y[1]), x[2])
       IN  Rat((x[1] \div g1) * (y[1] \div g2), (x[2] \div g2) * (y[2] \div g1))

Div(x, y) ==
  IF IsNaN(x) \/ IsNaN(y) THEN NaN
  ELSE IF IsInf(y) THEN (IF IsInf(x) THEN NaN ELSE N(0))
  ELSE IF IsZero(y) THEN (IF IsZero(x) THEN NaN ELSE <<Sign(x[1]), 0>>)
  ELSE IF IsInf(x) THEN <<Sign(x[1]) * Sign(y[1]), 0>>
  ELSE Rat(x[1] * y[2], x[2] * y[1])

\* x < y as JavaScript compares numbers: false when either is NaN
Lt(x, y) ==
  IF IsNaN(x) \/ IsNaN(y) THEN FALSE
  ELSE IF IsInf(x) THEN x = NegInf /\ y # NegInf
  ELSE IF IsInf(y) THEN y = PosInf
  ELSE x[1] * y[2] < y[1] * x[2]

Le(x, y) == ~IsNaN(x) /\ ~IsNaN(y) /\ ~Lt(y, x)

\* x === y on numbers: NaN is not equal to itself
StrictEq(x, y) == ~IsNaN(x) /\ ~IsNaN(y) /\ x = y

MathMax(x, y) ==
  IF IsNaN(x) \/ IsNaN(y) THEN NaN ELSE IF Lt(x, y) THEN y ELSE x

MathMin(x, y) ==
  IF IsNaN(x) \/ IsNaN(y) THEN NaN ELSE IF Lt(y, x) THEN y ELSE x

\* ------------------------------------------------------------ constants

BAR_HEIGHT == 16
BAR_Y_GUTTER == 1
BAR_X_GUTTER == 1
PX_PER_MS == 1
MAX_ZOOM == 100
MIN_ZOOM == Rat(1, 5)

None == "null"

\* ------------------------------------------------------------ inputs

\* number of input events after mounting that the model follows
MaxSteps == 3

Measure(name, startTime, duration, group) ==
  [name |-> name, startTime |-> startTime, duration |-> duration, group |-> group]

EmptyTrace == <<>>
PointTrace == <<Measure("p", 0, 0, None)>>
NestedTrace ==
  <<Measure("A", 0, 10, "g1"), Measure("B", 2, 3, "g1"), Measure("C", 6, 2, "g2")>>
ShortTrace == <<Measure("x", 5, 1, None), Measure("y", 1, 2, None)>>

Traces == {EmptyTrace, PointTrace, NestedTrace, ShortTrace}

\* the trace arrays a parent passes when it renders the component again
NextTraces == {EmptyTrace, NestedTrace}

ViewportWidths == {8}

\* what localStorage holds when the page loads: nothing, or the view a
\* previous session stored
\* a localStorage item: absent, or a text that is the decimal form of a number
\* (String(x)) or is not a number at all
NoItem == [present |-> FALSE, junk |-> FALSE, num |-> NaN]
String(x) == [present |-> TRUE, junk |-> FALSE, num |-> x]
Junk == [present |-> TRUE, junk |-> TRUE, num |-> NaN]
NoStorage == [zoom |-> NoItem, center |-> NoItem]
Storages == {NoStorage, [zoom |-> String(N(64)), center |-> String(N(3))]}

\* ------------------------------------------------------------ layout

\* processing order of the layout engine: startTime ascending, then duration
\* descending, then original order
ProcessBefore(t, i, j) ==
  \/ t[i].startTime < t[j].startTime
  \/ t[i].startTime = t[j].startTime /\ t[i].duration > t[j].duration
  \/ t[i].startTime = t[j].startTime /\ t[i].duration = t[j].duration /\ i < j

\* output order of the layout engine: startTime ascending, ties in original order
OutputBefore(t, i, j) ==
  \/ t[i].startTime < t[j].startTime
  \/ t[i].startTime = t[j].startTime /\ i < j

\* the indices of t sorted by ProcessBefore (forLanes) or by OutputBefore
SortIndices(t, forLanes) ==
  [k \in 1..Len(t) |->
     CHOOSE i \in 1..Len(t) :
       Cardinality({j \in 1..Len(t) :
                      IF forLanes THEN ProcessBefore(t, j, i)
                      ELSE OutputBefore(t, j, i)}) = k - 1]

\* FreeLane taking the highest free lane instead of the lowest
FreeLaneHighest(lanes, startTime) ==
  LET free == {l \in 1..Len(lanes) : lanes[l] <= startTime}
  IN  IF free = {} THEN Len(lanes) + 1
      ELSE CHOOSE l \in free : \A m \in free : l >= m

\* FreeLane with the comparison turned round: a lane counts as free while the
\* measure last put in it is still running
FreeLaneInverted(lanes, startTime) ==
  LET free == {l \in 1..Len(lanes) : lanes[l] >= startTime}
  IN  IF free = {} THEN Len(lanes) + 1
      ELSE CHOOSE l \in free : \A m \in free : l <= m

\* lowest-indexed lane whose end time is <= startTime, or a new lane
FreeLane(lanes, startTime) ==
  LET free == {l \in 1..Len(lanes) : lanes[l] <= startTime}
  IN  IF free = {} THEN Len(lanes) + 1
      ELSE CHOOSE l \in free : \A m \in free : l <= m

RECURSIVE AssignLanes(_, _, _, _, _)
\* stack[i] is the lane (from 0) of measure i of t, placed in the order `order`
AssignLanes(t, order, k, lanes, stack) ==
  IF k > Len(order) THEN stack
  ELSE LET i == order[k]
           l == FreeLane(lanes, t[i].startTime)
           end == t[i].startTime + t[i].duration
           lanes2 == IF l > Len(lanes) THEN Append(lanes, end)
                     ELSE [lanes EXCEPT ![l] = end]
       IN  AssignLanes(t, order, k + 1, lanes2, [stack EXCEPT ![i] = l - 1])

transformTrace(t) ==
  LET stack == AssignLanes(t, SortIndices(t, TRUE), 1, <<>>,
                           [i \in 1..Len(t) |-> 0])
      out == SortIndices(t, FALSE)
  IN  [k \in 1..Len(t) |-> [measure |-> t[out[k]], stackIndex |-> stack[out[k]]]]

RECURSIVE GroupKeys(_, _, _)
\* the keys of the Map built by reduce, in insertion order
GroupKeys(t, k, keys) ==
  IF k > Len(t) THEN keys
  ELSE GroupKeys(t, k + 1,
                 IF \E n \in 1..Len(keys) : keys[n] = t[k].group THEN keys
                 ELSE Append(keys, t[k].group))

\* the Map built by reduce: each key with the items pushed under it
groupedTraces(t) ==
  LET keys == GroupKeys(t, 1, <<>>)
  IN  [n \in 1..Len(keys) |->
         [group |-> keys[n],
          trace |-> LET InGroup(m) == m.group = keys[n]
                    IN  SelectSeq(t, InGroup)]]

\* transformTraceGroups laying out the whole trace once and splitting the result
transformTraceGroupsShared(t) ==
  LET keys == GroupKeys(t, 1, <<>>)
  IN  [n \in 1..Len(keys) |->
         [group |-> keys[n],
          trace |-> LET InGroup(rm) == rm.measure.group = keys[n]
                    IN  SelectSeq(transformTrace(t), InGroup)]]

transformTraceGroups(t) ==
  LET grouped == groupedTraces(t)
  IN  [n \in 1..Len(grouped) |->
         [group |-> grouped[n].group, trace |-> transformTrace(grouped[n].trace)]]

\* ------------------------------------------------------------ state

VARIABLES
  variant,         \* "Trace" (src/src/Trace.js) or "Canvas" (src/unnamed/part_000)
  trace,           \* props.trace
  traceId,         \* identity of the props.trace array
  viewportWidth,   \* props.viewportWidth
  renderer,        \* props.renderer
  persistView,     \* props.persistView
  localStorage,    \* the items 'zoom' and 'center'
  mounted,         \* the constructor returned and the component is mounted
  threw,           \* an exception was raised by the constructor or a handler
  center, zoom, dragging, dragMoved, hovered, selection,   \* this.state
  memoTrace,       \* cache of this._transformTrace
  memoGroups,      \* cache of this._transformTraceGroups
  renderedShapes,  \* this._renderedShapes
  colorCaches,     \* the WeakMaps of _getMeasureColor, ...RGB and ...HoverRGB
  randomCalls,     \* history: the measures getRandomColor was invoked for
  returnedColors,  \* history: what _getMeasureColor returned, per measure
  last,            \* the handler that ran last
  steps            \* number of events handled

props == <<variant, trace, viewportWidth, renderer, persistView>>
state == <<center, zoom, dragging, dragMoved, hovered, selection>>
vars == <<variant, trace, traceId, viewportWidth, renderer, persistView,
          localStorage, mounted, threw, center, zoom, dragging, dragMoved,
          hovered, selection, memoTrace, memoGroups, renderedShapes,
          colorCaches, randomCalls, returnedColors, last, steps>>
\* the colours handed out for drawing; the handlers are modelled up to the
\* shapes they store, the colour calls of a render are the subject of ColorSpec
colors == <<colorCaches, randomCalls, returnedColors>>
\* a WeakMap without entries
EmptyMap == <<>>
NoColors ==
  /\ colorCaches = [color |-> EmptyMap, rgb |-> EmptyMap, hover |-> EmptyMap]
  /\ randomCalls = <<>>
  /\ returnedColors = {}

\* a reference to no RenderableMeasure (null)
NoMeasure == [tid |-> -1, idx |-> 0]
\* a reference to the idx-th element of the layout of the trace array tid
MeasureRef(tid, idx) == [tid |-> tid, idx |-> idx]

\* memoize-one: the last argument (by identity), its result and the number of
\* times the wrapped function ran
EmptyMemo == [arg |-> -1, result |-> <<>>, calls |-> 0]
memoize(grouped, m, id, t) ==
  IF m.arg = id THEN m
  ELSE [arg |-> id,
        result |-> IF grouped THEN transformTraceGroups(t) ELSE transformTrace(t),
        calls |-> m.calls + 1]

\* _transformTrace without the cache: the layout runs on every call
_transformTraceUncached(m, id, t) ==
  [arg |-> id, result |-> transformTrace(t), calls |-> m.calls + 1]

_transformTrace(m, id, t) == memoize(FALSE, m, id, t)
_transformTraceGroups(m, id, t) == memoize(TRUE, m, id, t)

\* this._transformTrace(this.props.trace) in the current state
renderableTrace == _transformTrace(memoTrace, traceId, trace).result

\* _getExtents indexes renderableTrace[0]: a TypeError on an empty layout
ExtentsThrow == Len(renderableTrace) = 0

_getExtents ==
  LET first == renderableTrace[1]
      lastM == renderableTrace[Len(renderableTrace)]
      startOffset == N(first.measure.startTime)
      endOffset == Add(N(lastM.measure.startTime), N(lastM.measure.duration))
  IN  [startOffset |-> startOffset, endOffset |-> endOffset,
       size |-> Sub(endOffset, startOffset)]

_clampCenter(updated) ==
  MathMax(_getExtents.startOffset, MathMin(_getExtents.endOffset, updated))

_getMinZoom == Div(N(viewportWidth), _getExtents.size)

\* _clampZoom easing a zoom above MAX_ZOOM half way back instead of cutting it
_clampZoomEased(updated) ==
  LET cut == MathMin(N(MAX_ZOOM), updated)
  IN  MathMax(_getMinZoom,
              IF Lt(cut, updated) THEN Div(Add(cut, updated), N(2)) ELSE cut)

\* Trace.js
_clampZoom(updated) == MathMax(_getMinZoom, MathMin(N(MAX_ZOOM), updated))

\* part_000
_clampZoomP0(updated) == MathMax(MIN_ZOOM, MathMin(N(MAX_ZOOM), updated))

clampZoom(updated) ==
  IF variant = "Trace" THEN _clampZoom(updated) ELSE _clampZoomP0(updated)

\* parseFloat: the number a decimal text denotes, NaN for any other text
parseFloat(item) == IF item.junk THEN NaN ELSE item.num

loadValue(name, defaultVal) ==
  LET item == localStorage[name]
  IN  IF (variant = "Canvas" \/ persistView) /\ item.present
         /\ ~IsNaN(parseFloat(item))
      THEN parseFloat(item)
      ELSE defaultVal

storeValue(store, name, val) ==
  IF variant = "Canvas" \/ persistView
  THEN [store EXCEPT ![name] = String(val)]
  ELSE store

\* ------------------------------------------------------------ projection

\* _getLayout without the Math.max: a short bar gets a negative width
_getLayoutNoFloor(rm, c, z) ==
  LET width == Sub(Mul(Mul(N(rm.measure.duration), N(PX_PER_MS)), z),
                   N(BAR_X_GUTTER))
      x == Add(Mul(Mul(Sub(N(rm.measure.startTime), c), N(PX_PER_MS)), z),
               Div(N(viewportWidth), N(2)))
      y == N(rm.stackIndex * (BAR_HEIGHT + BAR_Y_GUTTER))
  IN  [width |-> width, height |-> N(BAR_HEIGHT), x |-> x, y |-> y,
       inView |-> ~(Lt(Add(x, width), N(0)) \/ Lt(N(viewportWidth), x))]

_getLayout(rm, c, z) ==
  LET width == MathMax(Sub(Mul(Mul(N(rm.measure.duration), N(PX_PER_MS)), z),
                           N(BAR_X_GUTTER)),
                       N(0))
      x == Add(Mul(Mul(Sub(N(rm.measure.startTime), c), N(PX_PER_MS)), z),
               Div(N(viewportWidth), N(2)))
      y == N(rm.stackIndex * (BAR_HEIGHT + BAR_Y_GUTTER))
  IN  [width |-> width, height |-> N(BAR_HEIGHT), x |-> x, y |-> y,
       inView |-> ~(Lt(Add(x, width), N(0)) \/ Lt(N(viewportWidth), x))]

RECURSIVE DrawShapes(_, _, _, _, _, _)
\* the loop of _renderCanvas: one entry of the shapes map per inView measure
DrawShapes(rt, tid, c, z, index, shapes) ==
  IF index > Len(rt) THEN shapes
  ELSE LET layout == _getLayout(rt[index], c, z)
       IN  DrawShapes(rt, tid, c, z, index + 1,
                      IF layout.inView
                      THEN Append(shapes, [layout |-> layout,
                                           measure |-> MeasureRef(tid, index)])
                      ELSE shapes)

\* _renderCanvas without this._renderedShapes.clear(): the shapes of earlier
\* renders stay in the map
_renderCanvasKeeps(shapes, rt, tid, c, z) ==
  IF variant = "Canvas" /\ renderer = "canvas" /\ Len(rt) > 0
  THEN DrawShapes(rt, tid, c, z, 1, shapes)
  ELSE shapes

\* this._renderedShapes after componentDidMount / componentDidUpdate, given
\* the map before, the layout rt of the trace array tid and the state (c, z)
\* just rendered; without a canvas element the map is left as it was
_renderCanvas(shapes, rt, tid, c, z) ==
  IF variant = "Canvas" /\ renderer = "canvas" /\ Len(rt) > 0
  THEN DrawShapes(rt, tid, c, z, 1, <<>>)
  ELSE shapes

Contains(layout, mx, my) ==
  ~(\/ Lt(mx, layout.x)
    \/ Lt(Add(layout.x, layout.width), mx)
    \/ Lt(my, layout.y)
    \/ Lt(Add(layout.y, layout.height), my))

\* _getIntersectingMeasure returning the last shape containing the point
_getIntersectingMeasureLast(canvasMouseX, canvasMouseY) ==
  LET hits == {i \in 1..Len(renderedShapes) :
                 Contains(renderedShapes[i].layout, N(canvasMouseX), N(canvasMouseY))}
  IN  IF hits = {} THEN NoMeasure
      ELSE renderedShapes[CHOOSE i \in hits : \A j \in hits : i >= j].measure

\* Array.from(entries).find(...): the first shape containing the point
_getIntersectingMeasure(canvasMouseX, canvasMouseY) ==
  LET hits == {i \in 1..Len(renderedShapes) :
                 Contains(renderedShapes[i].layout, N(canvasMouseX), N(canvasMouseY))}
  IN  IF hits = {} THEN NoMeasure
      ELSE renderedShapes[CHOOSE i \in hits : \A j \in hits : i <= j].measure

\* ------------------------------------------------------------ events

NoOpt == [has |-> FALSE, val |-> NaN]
Some(x) == [has |-> TRUE, val |-> x]

Keys == {"w", "a", "s", "d", "x"}
\* pointer positions on the canvas: the viewport centre on lane 0 and right of
\* the centre on lane 1
Pointers == {<<4, 0>>, <<6, 20>>}
\* event.deltaY: zoom factors 1 + 0.005 * -deltaY of 2, 1 and 0
WheelDeltas == {-200, 0, 200}
\* event.movementX
Movements == {0, 2}
\* values of the zoom slider (min 0, max 20)
ZoomValues == {N(0), N(20)}
\* arguments of onStateChange
Changes ==
  { [zoom |-> Some(N(4)), center |-> NoOpt, dragging |-> NoOpt],
    [zoom |-> NoOpt, center |-> Some(N(2)), dragging |-> NoOpt],
    [zoom |-> Some(N(200)), center |-> Some(N(-5)), dragging |-> NoOpt],
    [zoom |-> Some(N(0)), center |-> Some(N(0)), dragging |-> NoOpt],
    [zoom |-> NoOpt, center |-> NoOpt, dragging |-> Some(TRUE)] }

\* ------------------------------------------------------------ construction

\* the state object the constructor builds (it has called _getExtents)
constructor ==
  LET startOffset == _getExtents.startOffset
  IN  [center |-> loadValue("center",
                    Add(startOffset,
                        Div(Div(N(viewportWidth), N(PX_PER_MS)), N(2)))),
       zoom |-> loadValue("zoom", N(1))]

\* the pages the model opens: every trace with an empty localStorage, and the
\* nested trace with the view a previous session stored
Loads ==
  {<<t, NoStorage>> : t \in Traces}
    \cup {<<NestedTrace, [zoom |-> String(N(64)), center |-> String(N(3))]>>}

Init ==
  /\ variant \in {"Trace", "Canvas"}
  /\ \E load \in Loads : trace = load[1] /\ localStorage = load[2]
  /\ traceId = 0
  /\ viewportWidth \in ViewportWidths
  /\ renderer = "canvas"
  /\ persistView = (variant = "Trace" /\ localStorage # NoStorage)
  /\ memoTrace = _transformTrace(EmptyMemo, 0, trace)
  /\ memoGroups = IF variant = "Trace"
                  THEN _transformTraceGroups(EmptyMemo, 0, trace)
                  ELSE EmptyMemo
  /\ threw = ExtentsThrow
  /\ mounted = ~ExtentsThrow
  /\ center = IF ExtentsThrow THEN N(0) ELSE constructor.center
  /\ zoom = IF ExtentsThrow THEN N(0) ELSE constructor.zoom
  /\ dragging = FALSE
  /\ dragMoved = FALSE
  /\ hovered = NoMeasure
  /\ selection = NoMeasure
  /\ renderedShapes = _renderCanvas(<<>>, renderableTrace, 0, center, zoom)
  /\ last = "constructor"
  /\ steps = 0
  /\ NoColors

\* ------------------------------------------------------------ handlers

\* an event is dispatched to the handler op of the mounted component
Dispatch(op) ==
  /\ mounted
  /\ steps < MaxSteps
  /\ steps' = steps + 1
  /\ last' = op
  /\ UNCHANGED <<props, traceId, mounted, colors>>

\* the handler called this._transformTrace(this.props.trace)
UseLayout ==
  /\ memoTrace' = _transformTrace(memoTrace, traceId, trace)
  /\ memoGroups' = IF variant = "Trace"
                   THEN _transformTraceGroups(memoGroups, traceId, trace)
                   ELSE memoGroups

\* setState with the given values, then render and componentDidUpdate
setState(c, z, dg, dm, hv, sel) ==
  /\ center' = c
  /\ zoom' = z
  /\ dragging' = dg
  /\ dragMoved' = dm
  /\ hovered' = hv
  /\ selection' = sel
  /\ UseLayout
  /\ renderedShapes' = _renderCanvas(renderedShapes, renderableTrace, traceId, c, z)
  /\ UNCHANGED <<threw, localStorage>>

\* the handler returns without setState
NoUpdate == UNCHANGED <<state, renderedShapes, threw, localStorage>>

\* the handler raises a TypeError in _getExtents before any setState
Throw ==
  /\ threw' = TRUE
  /\ UseLayout
  /\ UNCHANGED <<state, renderedShapes, localStorage>>

setZoom(z) == setState(center, z, dragging, dragMoved, hovered, selection)
setCenter(c) == setState(c, zoom, dragging, dragMoved, hovered, selection)

\* the component rendered its full tree (not the 'empty trace' placeholder)
TreeRendered == ~ExtentsThrow

\* the <canvas> element with the pointer handlers is in the document
CanvasPresent == variant = "Canvas" /\ renderer = "canvas" /\ TreeRendered

\* -------- both revisions

\* _handleKey whose update was computed from the state the constructor built,
\* as a callback deferred by run would compute it from the state it captured
HandleKeyStale(key) ==
  /\ Dispatch("key")
  /\ IF ExtentsThrow THEN Throw
     ELSE LET size == _getExtents.size
              old == constructor
          IN  CASE key = "w" -> setZoom(clampZoom(Mul(old.zoom, N(2))))
                [] key = "a" ->
                     setCenter(_clampCenter(
                       Sub(old.center, Div(Mul(Rat(5, 100), size), old.zoom))))
                [] key = "s" -> setZoom(clampZoom(Div(old.zoom, N(2))))
                [] key = "d" ->
                     setCenter(_clampCenter(
                       Add(old.center, Div(Mul(Rat(5, 100), size), old.zoom))))
                [] OTHER -> UseLayout /\ NoUpdate

\* _handleKey writing the doubled or halved zoom without _clampZoom
HandleKeyUnclamped(key) ==
  /\ Dispatch("key")
  /\ IF ExtentsThrow THEN Throw
     ELSE LET size == _getExtents.size
          IN  CASE key = "w" -> setZoom(Mul(zoom, N(2)))
                [] key = "a" ->
                     setCenter(_clampCenter(
                       Sub(center, Div(Mul(Rat(5, 100), size), zoom))))
                [] key = "s" -> setZoom(Div(zoom, N(2)))
                [] key = "d" ->
                     setCenter(_clampCenter(
                       Add(center, Div(Mul(Rat(5, 100), size), zoom))))
                [] OTHER -> UseLayout /\ NoUpdate

\* _handleKey panning by 5% of the extents at every zoom
HandleKeyPanUnscaled(key) ==
  /\ Dispatch("key")
  /\ IF ExtentsThrow THEN Throw
     ELSE LET size == _getExtents.size
          IN  CASE key = "w" -> setZoom(clampZoom(Mul(zoom, N(2))))
                [] key = "a" ->
                     setCenter(_clampCenter(Sub(center, Mul(Rat(5, 100), size))))
                [] key = "s" -> setZoom(clampZoom(Div(zoom, N(2))))
                [] key = "d" ->
                     setCenter(_clampCenter(Add(center, Mul(Rat(5, 100), size))))
                [] OTHER -> UseLayout /\ NoUpdate

HandleKey(key) ==
  /\ Dispatch("key")
  /\ IF ExtentsThrow THEN Throw
     ELSE LET size == _getExtents.size
          IN  CASE key = "w" -> setZoom(clampZoom(Mul(zoom, N(2))))
                [] key = "a" ->
                     setCenter(_clampCenter(
                       Sub(center, Div(Mul(Rat(5, 100), size), zoom))))
                [] key = "s" -> setZoom(clampZoom(Div(zoom, N(2))))
                [] key = "d" ->
                     setCenter(_clampCenter(
                       Add(center, Div(Mul(Rat(5, 100), size), zoom))))
                [] OTHER -> UseLayout /\ NoUpdate

_handleKey == \E key \in Keys : HandleKey(key)

\* window.onbeforeunload, installed by componentDidMount
onbeforeunload ==
  /\ Dispatch("beforeunload")
  /\ localStorage' = storeValue(storeValue(localStorage, "center", center),
                                "zoom", zoom)
  /\ UNCHANGED <<state, renderedShapes, threw, memoTrace, memoGroups>>

\* the parent renders the component again with the trace array t, a new array
ReceiveTrace(t) ==
  /\ mounted
  /\ steps < MaxSteps
  /\ steps' = steps + 1
  /\ last' = "props"
  /\ trace' = t
  /\ traceId' = traceId + 1
  /\ memoTrace' = _transformTrace(memoTrace, traceId', t)
  /\ memoGroups' = IF variant = "Trace"
                   THEN _transformTraceGroups(memoGroups, traceId', t)
                   ELSE memoGroups
  /\ renderedShapes' = _renderCanvas(renderedShapes, memoTrace'.result,
                                     traceId', center, zoom)
  /\ UNCHANGED <<variant, viewportWidth, renderer, persistView, mounted, colors,
                 state, threw, localStorage>>

ReceiveProps == \E t \in NextTraces \cup {trace} : ReceiveTrace(t)

\* -------- src/src/Trace.js: callbacks handed to the renderers and the minimap

\* _handleStateChange testing the values for truthiness, so that 0 is absent
HandleStateChangeTruthy(changes) ==
  /\ variant = "Trace"
  /\ TreeRendered
  /\ Dispatch("stateChange")
  /\ setState(IF changes.center.has /\ ~IsZero(changes.center.val)
              THEN _clampCenter(changes.center.val) ELSE center,
              IF changes.zoom.has /\ ~IsZero(changes.zoom.val)
              THEN _clampZoom(changes.zoom.val) ELSE zoom,
              IF changes.dragging.has THEN changes.dragging.val ELSE dragging,
              dragMoved, hovered, selection)

HandleStateChange(changes) ==
  /\ variant = "Trace"
  /\ TreeRendered
  /\ Dispatch("stateChange")
  /\ setState(IF changes.center.has THEN _clampCenter(changes.center.val)
              ELSE center,
              IF changes.zoom.has THEN _clampZoom(changes.zoom.val) ELSE zoom,
              IF changes.dragging.has THEN changes.dragging.val ELSE dragging,
              dragMoved, hovered, selection)

_handleStateChange == \E changes \in Changes : HandleStateChange(changes)

HandleSelectionChange(sel) ==
  /\ variant = "Trace"
  /\ TreeRendered
  /\ Dispatch("selectionChange")
  /\ setState(center, zoom, dragging, dragMoved, hovered, sel)

_handleSelectionChange ==
  \E sel \in {NoMeasure, MeasureRef(traceId, 1)} : HandleSelectionChange(sel)

\* -------- src/unnamed/part_000: sliders, buttons and pointer handlers

HandleZoom(updated) ==
  /\ variant = "Canvas"
  /\ TreeRendered
  /\ Dispatch("zoomSlider")
  /\ setZoom(_clampZoomP0(updated))

_handleZoom == \E updated \in ZoomValues : HandleZoom(updated)

HandleCenter(updated) ==
  /\ variant = "Canvas"
  /\ TreeRendered
  /\ Dispatch("centerSlider")
  /\ setCenter(_clampCenter(updated))

\* values of the center slider: between its min and max, the extents
CenterValues == IF TreeRendered THEN {_getExtents.endOffset} ELSE {}

_handleCenter == \E updated \in CenterValues : HandleCenter(updated)

_handleLeft ==
  /\ variant = "Canvas"
  /\ TreeRendered
  /\ Dispatch("left")
  /\ setCenter(_clampCenter(
       Sub(center, Div(Mul(_getExtents.size, Rat(1, 100)), zoom))))

_handleRight ==
  /\ variant = "Canvas"
  /\ TreeRendered
  /\ Dispatch("right")
  /\ setCenter(_clampCenter(
       Add(center, Div(Mul(_getExtents.size, Rat(1, 100)), zoom))))

_mouseDown ==
  /\ CanvasPresent
  /\ Dispatch("mouseDown")
  /\ setState(center, zoom, TRUE, FALSE, hovered, selection)

\* _mouseMove panning with the pointer's movement added instead of subtracted
MouseMoveAdds(p, movementX) ==
  /\ CanvasPresent
  /\ Dispatch("mouseMove")
  /\ IF dragging
     THEN setState(_clampCenter(
                     Add(center, Div(Div(N(movementX), N(PX_PER_MS)), zoom))),
                   zoom, dragging, TRUE,
                   _getIntersectingMeasure(p[1], p[2]), selection)
     ELSE UNCHANGED <<memoTrace, memoGroups>> /\ NoUpdate

MouseMove(p, movementX) ==
  /\ CanvasPresent
  /\ Dispatch("mouseMove")
  /\ IF dragging
     THEN setState(_clampCenter(
                     Sub(center, Div(Div(N(movementX), N(PX_PER_MS)), zoom))),
                   zoom, dragging, TRUE,
                   _getIntersectingMeasure(p[1], p[2]), selection)
     ELSE UNCHANGED <<memoTrace, memoGroups>> /\ NoUpdate

_mouseMove == \E p \in Pointers, movementX \in Movements : MouseMove(p, movementX)

\* _mouseUp selecting at the release point whether or not the pointer moved
MouseUpAlwaysSelects(p) ==
  /\ CanvasPresent
  /\ Dispatch("mouseUp")
  /\ setState(center, zoom, FALSE, FALSE, hovered,
              _getIntersectingMeasure(p[1], p[2]))

\* _mouseUp that forgets to end the drag
MouseUpKeepsDragging(p) ==
  /\ CanvasPresent
  /\ Dispatch("mouseUp")
  /\ setState(center, zoom, dragging, FALSE, hovered,
              IF ~dragMoved THEN _getIntersectingMeasure(p[1], p[2])
              ELSE selection)

MouseUp(p) ==
  /\ CanvasPresent
  /\ Dispatch("mouseUp")
  /\ setState(center, zoom, FALSE, FALSE, hovered,
              IF ~dragMoved THEN _getIntersectingMeasure(p[1], p[2])
              ELSE selection)

_mouseUp == \E p \in Pointers : MouseUp(p)

\* _handleWheel without the test against the current zoom: it always updates
HandleWheelAlways(p, deltaY) ==
  /\ CanvasPresent
  /\ Dispatch("wheel")
  /\ LET mouseOffsetFromCenter == Sub(N(p[1]), Div(N(viewportWidth), N(2)))
         updatedZoom == Mul(zoom, Add(N(1), Mul(Rat(5, 1000), N(-deltaY))))
         updatedCenter ==
           Sub(Add(center,
                   Div(Div(mouseOffsetFromCenter, N(PX_PER_MS)), zoom)),
               Div(Div(mouseOffsetFromCenter, N(PX_PER_MS)), updatedZoom))
     IN  setState(_clampCenter(updatedCenter), _clampZoomP0(updatedZoom),
                  dragging, dragMoved, hovered, selection)

\* _handleWheel whose setState also ends the drag
HandleWheelEndsDrag(p, deltaY) ==
  /\ CanvasPresent
  /\ Dispatch("wheel")
  /\ LET mouseOffsetFromCenter == Sub(N(p[1]), Div(N(viewportWidth), N(2)))
         updatedZoom == Mul(zoom, Add(N(1), Mul(Rat(5, 1000), N(-deltaY))))
         updatedCenter ==
           Sub(Add(center,
                   Div(Div(mouseOffsetFromCenter, N(PX_PER_MS)), zoom)),
               Div(Div(mouseOffsetFromCenter, N(PX_PER_MS)), updatedZoom))
     IN  IF ~StrictEq(_clampZoomP0(updatedZoom), zoom)
         THEN setState(_clampCenter(updatedCenter), _clampZoomP0(updatedZoom),
                       FALSE, FALSE, hovered, selection)
         ELSE UNCHANGED <<memoTrace, memoGroups>> /\ NoUpdate

HandleWheel(p, deltaY) ==
  /\ CanvasPresent
  /\ Dispatch("wheel")
  /\ LET mouseOffsetFromCenter == Sub(N(p[1]), Div(N(viewportWidth), N(2)))
         updatedZoom == Mul(zoom, Add(N(1), Mul(Rat(5, 1000), N(-deltaY))))
         updatedCenter ==
           Sub(Add(center,
                   Div(Div(mouseOffsetFromCenter, N(PX_PER_MS)), zoom)),
               Div(Div(mouseOffsetFromCenter, N(PX_PER_MS)), updatedZoom))
     IN  IF ~StrictEq(_clampZoomP0(updatedZoom), zoom)
         THEN setState(_clampCenter(updatedCenter), _clampZoomP0(updatedZoom),
                       dragging, dragMoved, hovered, selection)
         ELSE UNCHANGED <<memoTrace, memoGroups>> /\ NoUpdate

_handleWheel == \E p \in Pointers, deltaY \in WheelDeltas : HandleWheel(p, deltaY)

Next ==
  \/ _handleKey
  \/ onbeforeunload
  \/ ReceiveProps
  \/ _handleStateChange
  \/ _handleSelectionChange
  \/ _handleZoom
  \/ _handleCenter
  \/ _handleLeft
  \/ _handleRight
  \/ _mouseDown
  \/ _mouseMove
  \/ _mouseUp
  \/ _handleWheel

Spec == Init /\ [][Next]_vars

\* ------------------------------------------------------------ layout runs

\* the layout engine applied to every short sequence of measures
MaxMeasures == 3
Times == 0..2
Durations == 0..2
LayoutMeasures == {Measure("m", s, d, None) : s \in Times, d \in Durations}
\* two identical measures, told apart by name only
TwinTrace == <<Measure("t1", 0, 5, None), Measure("t2", 0, 5, None)>>
LayoutInputs ==
  UNION {[1..n -> LayoutMeasures] : n \in 0..MaxMeasures}
    \cup {NestedTrace, TwinTrace}

LayoutInit ==
  /\ variant = "Canvas"
  /\ trace \in LayoutInputs
  /\ traceId = 0
  /\ viewportWidth = 8
  /\ renderer = "canvas"
  /\ persistView = FALSE
  /\ localStorage = NoStorage
  /\ mounted = FALSE
  /\ threw = FALSE
  /\ center = N(0)
  /\ zoom = N(1)
  /\ dragging = FALSE
  /\ dragMoved = FALSE
  /\ hovered = NoMeasure
  /\ selection = NoMeasure
  /\ memoTrace = EmptyMemo
  /\ memoGroups = EmptyMemo
  /\ renderedShapes = <<>>
  /\ last = "input"
  /\ steps = 0
  /\ NoColors

\* the first this._transformTrace(this.props.trace)
RunLayout ==
  /\ memoTrace.arg # traceId
  /\ memoTrace' = _transformTrace(memoTrace, traceId, trace)
  /\ last' = "layout"
  /\ UNCHANGED <<props, state, traceId, localStorage, mounted, colors, threw,
                 memoGroups, renderedShapes, steps>>

LayoutNext == RunLayout

LayoutSpec == LayoutInit /\ [][LayoutNext]_vars

\* ------------------------------------------------------------ grouped layout runs

MaxGrouped == 3
GroupNames == {None, "g1", "g2"}
GroupedMeasures ==
  {Measure("m", s, d, g) : s \in 0..1, d \in {0, 2}, g \in GroupNames}
GroupedInputs == UNION {[1..n -> GroupedMeasures] : n \in 0..MaxGrouped}

GroupInit ==
  /\ variant = "Trace"
  /\ trace \in GroupedInputs
  /\ traceId = 0
  /\ viewportWidth = 8
  /\ renderer = "canvas"
  /\ persistView = FALSE
  /\ localStorage = NoStorage
  /\ mounted = FALSE
  /\ threw = FALSE
  /\ center = N(0)
  /\ zoom = N(1)
  /\ dragging = FALSE
  /\ dragMoved = FALSE
  /\ hovered = NoMeasure
  /\ selection = NoMeasure
  /\ memoTrace = EmptyMemo
  /\ memoGroups = EmptyMemo
  /\ renderedShapes = <<>>
  /\ last = "input"
  /\ steps = 0
  /\ NoColors

\* this._transformTraceGroups(this.props.trace), first call
RunGroups ==
  /\ memoGroups.arg # traceId
  /\ memoGroups' = _transformTraceGroups(memoGroups, traceId, trace)
  /\ last' = "groups"
  /\ UNCHANGED <<props, state, traceId, localStorage, mounted, colors, threw,
                 memoTrace, renderedShapes, steps>>

GroupNext == RunGroups

GroupSpec == GroupInit /\ [][GroupNext]_vars

\* ------------------------------------------------------------ WebGL frames

\* the renderer of src/unnamed/part_000 700-1006: the quads are built once for
\* the default view and every frame applies one matrix to them
defaultZoom == N(1)
defaultCenter ==
  Add(_getExtents.startOffset, Div(Div(N(viewportWidth), N(PX_PER_MS)), N(2)))

\* getLayout(state, measure, 0) of ./renderUtils, the projection of section 4.3
getLayout(layoutState, rm) == _getLayout(rm, layoutState.center, layoutState.zoom)

\* pixels of the canvas to clip space and back (the viewport is the canvas)
toClip(px) == Sub(Mul(Div(px, N(viewportWidth)), N(2)), N(1))
toPixels(clip) == Div(Mul(Add(clip, N(1)), N(viewportWidth)), N(2))

\* the x coordinates of the two left and the two right vertices of each quad
initBuffers ==
  LET defaultLayoutState == [center |-> defaultCenter, zoom |-> defaultZoom]
  IN  [i \in 1..Len(renderableTrace) |->
         LET layout == getLayout(defaultLayoutState, renderableTrace[i])
             x == toClip(layout.x)
             width == Mul(Div(layout.width, N(viewportWidth)), N(2))
         IN  [left |-> x, right |-> Add(x, width)]]

\* uProjectionMatrix * uModelViewMatrix applied to the x of a vertex: ortho(-1,
\* 1, 1, -1) leaves x as it is, the model-view matrix scales and then translates
transformX(x, c, z) ==
  LET offsetX == Mul(Sub(defaultCenter, c), N(PX_PER_MS))
      scale == Div(z, defaultZoom)
  IN  Add(Mul(scale, x),
          Mul(Div(Mul(scale, offsetX), N(viewportWidth)), N(2)))

\* the quads a frame puts on the canvas for the state (c, z), in pixels
drawScene(buffers, c, z) ==
  [i \in 1..Len(buffers) |->
     LET left == toPixels(transformX(buffers[i].left, c, z))
         right == toPixels(transformX(buffers[i].right, c, z))
     IN  [layout |-> [x |-> left, width |-> Sub(right, left)],
          measure |-> MeasureRef(traceId, i)]]

MaxFrames == 2
FrameCenters == {N(0), N(1), N(3), N(5), N(7), N(50)}
FrameZooms == {Rat(1, 2), N(1), N(2), N(4), N(200)}
FrameTraces == {NestedTrace, ShortTrace, TwinTrace}
FrameWidths == {8, 1000}

WebGLInit ==
  /\ variant = "Trace"
  /\ trace \in FrameTraces
  /\ traceId = 0
  /\ viewportWidth \in FrameWidths
  /\ renderer = "webgl"
  /\ persistView = FALSE
  /\ localStorage = NoStorage
  /\ mounted = TRUE
  /\ threw = FALSE
  /\ memoTrace = _transformTrace(EmptyMemo, 0, trace)
  /\ memoGroups = _transformTraceGroups(EmptyMemo, 0, trace)
  /\ center = constructor.center
  /\ zoom = constructor.zoom
  /\ dragging = FALSE
  /\ dragMoved = FALSE
  /\ hovered = NoMeasure
  /\ selection = NoMeasure
  /\ renderedShapes = <<>>
  /\ last = "initWebGLRenderer"
  /\ steps = 0
  /\ NoColors

\* the view changes through onStateChange and the next frame is drawn
rerender(c, z) ==
  /\ steps < MaxFrames
  /\ steps' = steps + 1
  /\ center' = _clampCenter(c)
  /\ zoom' = _clampZoom(z)
  /\ renderedShapes' = drawScene(initBuffers, center', zoom')
  /\ last' = "drawScene"
  /\ UNCHANGED <<props, traceId, localStorage, mounted, colors, threw, dragging,
                 dragMoved, hovered, selection, memoTrace, memoGroups>>

WebGLNext == \E c \in FrameCenters, z \in FrameZooms : rerender(c, z)

WebGLSpec == WebGLInit /\ [][WebGLNext]_vars

\* ---- C30
\* C30: in every frame of the static-buffer renderer each measure's quad has
\* the left edge and the width that getLayout gives for that measure under the
\* current center and zoom.
C30_StaticBuffersMatchProjection ==
  last = "drawScene" =>
    \A i \in 1..Len(renderedShapes) :
      LET layout == getLayout([center |-> center, zoom |-> zoom], renderableTrace[i])
      IN  /\ renderedShapes[i].layout.x = layout.x
          /\ renderedShapes[i].layout.width = layout.width

\* ------------------------------------------------------------ WebGL, per frame

\* the renderer of src/src/WebGLRenderUtils.js: every rerender builds the
\* buffers for the measures in view and draws one triangle strip per measure
SQUARE_VERTICES == 4
FLOAT_BYTES == 4
FrameHeights == {34}
viewportHeight == CHOOSE h \in FrameHeights : TRUE

\* a float of the position buffer, with the measure it was written for
Float(m, value) == [measure |-> m, value |-> value]
\* getColorForMeasure(measure) of ./WebGLColorUtils: the four components of
\* the vec4 attribute aVertexColor, each with the measure it belongs to
getColorForMeasure(m) == [k \in 1..4 |-> [measure |-> m, component |-> k]]

RECURSIVE initBuffersPerFrame(_, _, _, _)
\* positions and colors after the loop of initBuffers, from measure index on
initBuffersPerFrame(buffers, index, c, z) ==
  IF index > Len(renderableTrace) THEN buffers
  ELSE LET layout == getLayout([center |-> c, zoom |-> z], renderableTrace[index])
           m == MeasureRef(traceId, index)
           x == toClip(layout.x)
           y == Sub(Mul(Div(layout.y, N(viewportHeight)), N(2)), N(1))
           width == Mul(Div(layout.width, N(viewportWidth)), N(2))
           height == Mul(Div(layout.height, N(viewportHeight)), N(2))
           quad == <<x, y, N(1),
                     Add(x, width), y, N(1),
                     x, Add(y, height), N(1),
                     Add(x, width), Add(y, height), N(1)>>
           color == getColorForMeasure(m)
       IN  initBuffersPerFrame(
             IF ~layout.inView THEN buffers
             ELSE [positions |-> buffers.positions
                                   \o [k \in 1..Len(quad) |-> Float(m, quad[k])],
                   positionLength |-> buffers.positionLength + SQUARE_VERTICES,
                   colors |-> buffers.colors \o color \o color \o color \o color],
             index + 1, c, z)

\* the floats an attribute reads for vertex number vertex, after
\* vertexAttribPointer(location, numComponents, FLOAT, false, 0, offset) with
\* offset in bytes; a read past the end of the buffer fails the draw call
fetchVertex(buffer, numComponents, offset, vertex) ==
  LET start == (offset + vertex * numComponents * FLOAT_BYTES) \div FLOAT_BYTES
  IN  IF start + numComponents > Len(buffer) THEN <<>>
      ELSE [k \in 1..numComponents |-> buffer[start + k]]

\* drawScene starting each strip at vertex 4 * primitiveIdx of the bound
\* attribute arrays
drawScenePerFrameFirst4(buffers) ==
  [n \in 1..(buffers.positionLength \div 4) |->
     LET primitiveIdx == n - 1
         first == SQUARE_VERTICES * primitiveIdx
     IN  [positions |->
            [v \in 1..SQUARE_VERTICES |->
               fetchVertex(buffers.positions, 3,
                           primitiveIdx * 3 * SQUARE_VERTICES, first + v - 1)],
          colors |->
            [v \in 1..SQUARE_VERTICES |->
               fetchVertex(buffers.colors, 4,
                           4 * primitiveIdx * SQUARE_VERTICES, first + v - 1)]]]

\* the draw calls of drawScene, each with the vertices its strip reads
drawScenePerFrame(buffers) ==
  [n \in 1..(buffers.positionLength \div 4) |->
     LET primitiveIdx == n - 1
         first == 3 * primitiveIdx
     IN  [positions |->
            [v \in 1..SQUARE_VERTICES |->
               fetchVertex(buffers.positions, 3,
                           primitiveIdx * 3 * SQUARE_VERTICES, first + v - 1)],
          colors |->
            [v \in 1..SQUARE_VERTICES |->
               fetchVertex(buffers.colors, 4,
                           4 * primitiveIdx * SQUARE_VERTICES, first + v - 1)]]]

MaxRerenders == 2
PerFrameCenters == {N(0), N(1), N(3), N(4), N(5), N(7)}
PerFrameZooms == {N(1), N(2), N(4), N(200)}

PerFrameInit ==
  /\ variant = "Trace"
  /\ trace \in FrameTraces
  /\ traceId = 0
  /\ viewportWidth = 8
  /\ renderer = "webgl"
  /\ persistView = FALSE
  /\ localStorage = NoStorage
  /\ mounted = TRUE
  /\ threw = FALSE
  /\ memoTrace = _transformTrace(EmptyMemo, 0, trace)
  /\ memoGroups = _transformTraceGroups(EmptyMemo, 0, trace)
  /\ center = constructor.center
  /\ zoom = constructor.zoom
  /\ dragging = FALSE
  /\ dragMoved = FALSE
  /\ hovered = NoMeasure
  /\ selection = NoMeasure
  /\ renderedShapes = <<>>
  /\ last = "initWebGLRenderer"
  /\ steps = 0
  /\ NoColors

\* the view changes through onStateChange and rerender(state) draws the frame
rerenderPerFrame(c, z) ==
  /\ steps < MaxRerenders
  /\ steps' = steps + 1
  /\ center' = _clampCenter(c)
  /\ zoom' = _clampZoom(z)
  /\ renderedShapes' =
       drawScenePerFrame(
         initBuffersPerFrame([positions |-> <<>>, positionLength |-> 0,
                              colors |-> <<>>], 1, center', zoom'))
  /\ last' = "rerender"
  /\ UNCHANGED <<props, traceId, localStorage, mounted, colors, threw, dragging,
                 dragMoved, hovered, selection, memoTrace, memoGroups>>

PerFrameNext ==
  \E c \in PerFrameCenters, z \in PerFrameZooms : rerenderPerFrame(c, z)

PerFrameSpec == PerFrameInit /\ [][PerFrameNext]_vars

\* ---- C32
\* the measures in view in the current state, in layout order
InViewMeasures ==
  LET Visible(k) ==
        getLayout([center |-> center, zoom |-> zoom], renderableTrace[k]).inView
      RECURSIVE Collect(_)
      Collect(k) == IF k > Len(renderableTrace) THEN <<>>
                    ELSE (IF Visible(k) THEN <<k>> ELSE <<>>) \o Collect(k + 1)
  IN  Collect(1)
MapHas(map, key) == key \in DOMAIN map
Undefined == [type |-> "undefined"]
MapGet(map, key) == IF MapHas(map, key) THEN map[key] ELSE Undefined
MapSet(map, key, value) ==
  [k \in DOMAIN map \cup {key} |-> IF k = key THEN value ELSE map[k]]
\* the values JavaScript's || passes on: an array is truthy, a string unless
\* it is empty, undefined is not
Truthy(value) ==
  CASE value.type = "undefined" -> FALSE
    [] value.type = "string" -> value.text # <<>>
    [] OTHER -> TRUE

\* memoizeWeak calling fn on every call and storing what it returns
memoizeWeakAlways(cache, arg, value) ==
  [cache |-> MapSet(cache, arg, value), result |-> value, ran |-> 1]

\* one call of the function memoizeWeak(fn) returns, where fn(arg) would
\* return value: the cache afterwards, the result, and how often fn ran
memoizeWeak(cache, arg, value) ==
  LET missing == ~MapHas(cache, arg)
      stored == IF missing THEN MapSet(cache, arg, value) ELSE cache
      got == MapGet(stored, arg)
  IN  IF Truthy(got)
      THEN [cache |-> stored, result |-> got, ran |-> IF missing THEN 1 ELSE 0]
      ELSE [cache |-> stored, result |-> value,
            ran |-> IF missing THEN 2 ELSE 1]

\* what getRandomColor may return
Array(r, g, b) == [type |-> "array", items |-> <<r, g, b>>]
Colors == {Array(0, 0, 0), Array(250, 128, 7)}
\* the template strings `rgb(r,g,b)`
rgb(color) == [type |-> "string", text |-> <<"rgb">> \o color.items]
Min255(n) == IF n + 20 < 255 THEN n + 20 ELSE 255
hoverRgb(color) ==
  [type |-> "string",
   text |-> <<"rgb", Min255(color.items[1]), Min255(color.items[2]),
              Min255(color.items[3])>>]

\* the caches and the two histories, as one value threaded through a render
Palette == [caches |-> colorCaches, calls |-> randomCalls, returned |-> returnedColors]

\* this._getMeasureColor(m) where getRandomColor would return random
_getMeasureColor(pal, m, random) ==
  LET call == memoizeWeak(pal.caches.color, m, random)
  IN  [caches |-> [pal.caches EXCEPT !.color = call.cache],
       calls |-> IF call.ran = 0 THEN pal.calls
                 ELSE IF call.ran = 1 THEN Append(pal.calls, m)
                 ELSE Append(Append(pal.calls, m), m),
       returned |-> pal.returned \cup {[measure |-> m, color |-> call.result]},
       result |-> call.result]

\* this._getMeasureColorRGB(m) / this._getMeasureHoverColorRGB(m): fn runs,
\* and calls _getMeasureColor, only for a measure the outer cache has not
_getMeasureColorRGB(pal, m, random, hover) ==
  LET outer == IF hover THEN pal.caches.hover ELSE pal.caches.rgb
  IN  IF MapHas(outer, m) THEN pal
      ELSE LET inner == _getMeasureColor(pal, m, random)
               text == IF hover THEN hoverRgb(inner.result) ELSE rgb(inner.result)
               call == memoizeWeak(outer, m, text)
           IN  [caches |-> IF hover THEN [inner.caches EXCEPT !.hover = call.cache]
                           ELSE [inner.caches EXCEPT !.rgb = call.cache],
                calls |-> inner.calls,
                returned |-> inner.returned]

RECURSIVE FillShapes(_, _, _, _, _, _)
\* the fillStyle lookups of the loop of _renderCanvas, for the shapes in view
FillShapes(pal, shapes, index, hv, sel, random) ==
  IF index > Len(shapes) THEN pal
  ELSE LET m == shapes[index].measure
           next == _getMeasureColorRGB(pal, m, random[m.idx], m = hv \/ m = sel)
       IN  FillShapes(next, shapes, index + 1, hv, sel, random)

MaxPaints == 3
IdenticalTrace == <<Measure("m", 0, 5, None), Measure("m", 0, 5, None)>>
PaintTraces == {NestedTrace, ShortTrace, IdenticalTrace}
PaintCenters == {N(0), N(50)}

ColorInit ==
  /\ variant = "Canvas"
  /\ trace \in PaintTraces
  /\ traceId = 0
  /\ viewportWidth = 8
  /\ renderer = "canvas"
  /\ persistView = FALSE
  /\ localStorage = NoStorage
  /\ mounted = TRUE
  /\ threw = FALSE
  /\ memoTrace = _transformTrace(EmptyMemo, 0, trace)
  /\ memoGroups = EmptyMemo
  /\ center = constructor.center
  /\ zoom \in {N(1), N(2)}
  /\ dragging = FALSE
  /\ dragMoved = FALSE
  /\ hovered = NoMeasure
  /\ selection = NoMeasure
  /\ renderedShapes = <<>>
  /\ last = "constructor"
  /\ steps = 0
  /\ NoColors

\* a render (componentDidMount or componentDidUpdate) with the view at c, the
\* hovered measure hv and the selection sel: _renderCanvas fills every shape
\* in view with the colour it looks up
Paint(c, hv, sel, random) ==
  /\ steps < MaxPaints
  /\ steps' = steps + 1
  /\ last' = "renderCanvas"
  /\ center' = c
  /\ hovered' = hv
  /\ selection' = sel
  /\ renderedShapes' = _renderCanvas(renderedShapes, renderableTrace, traceId, c, zoom)
  /\ LET pal == FillShapes(Palette, renderedShapes', 1, hv, sel, random)
     IN  /\ colorCaches' = pal.caches
         /\ randomCalls' = pal.calls
         /\ returnedColors' = pal.returned
  /\ UNCHANGED <<props, traceId, localStorage, mounted, threw, zoom, dragging,
                 dragMoved, memoTrace, memoGroups>>

ColorNext ==
  \E c \in {_clampCenter(x) : x \in PaintCenters},
     hv \in {NoMeasure, MeasureRef(traceId, 1)},
     sel \in {NoMeasure, MeasureRef(traceId, 2)},
     random \in [1..Len(renderableTrace) -> Colors] :
    Paint(c, hv, sel, random)

ColorSpec == ColorInit /\ [][ColorNext]_vars

\* ---- C31
\* C31: _getMeasureColor has returned one colour only for each measure
\* object, the one its cache holds, through every render and change of hover
\* and selection, and getRandomColor has been invoked at most once for each
\* measure.
C31_ColourAssignedOnce ==
  /\ \A a, b \in returnedColors : a.measure = b.measure => a.color = b.color
  /\ \A a \in returnedColors :
       MapGet(colorCaches.color, a.measure) = a.color
  /\ \A i, j \in 1..Len(randomCalls) : randomCalls[i] = randomCalls[j] => i = j
\* the first measure was drawn plain and then hovered (both colour strings are
\* cached), it was asked its colour twice and the generator ran once for it;
\* the two measures, equal in every field, have different colours
C31_Witness ==
  /\ trace = IdenticalTrace
  /\ MapHas(colorCaches.rgb, MeasureRef(0, 1))
  /\ MapHas(colorCaches.hover, MeasureRef(0, 1))
  /\ Len(randomCalls) = 2
  /\ colorCaches.color[MeasureRef(0, 1)] = Array(0, 0, 0)
  /\ colorCaches.color[MeasureRef(0, 2)] # Array(0, 0, 0)

\* ------------------------------------------------------------ claims

\* the component is mounted and shows a non-empty trace
Showing == mounted /\ TreeRendered

\* C1: in every state of the mounted component, zoom lies between
\* viewportWidth / extents.size and MAX_ZOOM.
C1_ZoomWithinLimits ==
  Showing =>
    /\ Le(Div(N(viewportWidth), _getExtents.size), zoom)
    /\ Le(zoom, N(MAX_ZOOM))

\* C2: in every state of the mounted component, center lies between
\* extents.startOffset and extents.endOffset.
C2_CenterWithinExtents ==
  Showing =>
    /\ Le(_getExtents.startOffset, center)
    /\ Le(center, _getExtents.endOffset)

pixelToTime(px, z, c) ==
  Add(Div(Sub(N(px), Div(N(viewportWidth), N(2))), z), c)

\* C4: a wheel event that changes the state leaves the time under the
\* pointer as it was.
C4_PointerTimeInvariant ==
  [][last' = "wheel" =>
       \A p \in Pointers, deltaY \in WheelDeltas :
         (HandleWheel(p, deltaY) /\ (zoom' # zoom \/ center' # center)) =>
           pixelToTime(p[1], zoom', center') = pixelToTime(p[1], zoom, center)]_vars

C6_HoverFollowsPointer ==
  [][last' = "mouseMove" =>
       /\ selection' = selection
       /\ \A p \in Pointers, movementX \in Movements :
            (MouseMove(p, movementX) /\ ~dragging) =>
              hovered' = _getIntersectingMeasure(p[1], p[2])]_vars

\* C7: with an empty trace no exception is raised and the component is
\* mounted (showing the 'empty trace' placeholder).
C7_EmptyTraceHandled == trace = EmptyTrace => (~threw /\ mounted)

\* C8: when extents.size is 0, _clampZoom returns a finite zoom and neither
\* zoom nor center is NaN or infinite.
C8_NoNaNOrInfinity ==
  (Showing /\ IsZero(_getExtents.size)) =>
    /\ \A z \in {N(0), N(1), N(200)} : IsFinite(clampZoom(z))
    /\ IsFinite(zoom)
    /\ IsFinite(center)

\* C9: the layout (flat, and per group in Trace.js) has been computed exactly
\* once for each identity the trace prop has had, whatever events were handled
\* in between, and the cached layout is that of the current trace array.
C9_LayoutOncePerTrace ==
  /\ memoTrace.calls = traceId + 1
  /\ memoTrace.arg = traceId
  /\ variant = "Trace" => (memoGroups.calls = traceId + 1 /\ memoGroups.arg = traceId)

\* two events were handled after the trace prop changed once, the last one a
\* key press, and the layout ran twice in all
C9_Witness ==
  /\ traceId = 1
  /\ steps = 3
  /\ last = "key"
  /\ memoTrace.calls = 2

MinStart(t) == CHOOSE v \in {t[i].startTime : i \in 1..Len(t)} :
                 \A i \in 1..Len(t) : v <= t[i].startTime
MaxEnd(t) == CHOOSE v \in {t[i].startTime + t[i].duration : i \in 1..Len(t)} :
               \A i \in 1..Len(t) : v >= t[i].startTime + t[i].duration

\* C10: the extents of a non-empty trace run from the least startTime to the
\* greatest startTime + duration of its measures.
C10_ExtentsCoverTrace ==
  Showing =>
    /\ _getExtents.startOffset = N(MinStart(trace))
    /\ _getExtents.endOffset = N(MaxEnd(trace))

\* C16: a pointer move by d pixels while dragging sets center to
\* _clampCenter(center - d / zoom) and leaves zoom alone; a pointer move while
\* not dragging leaves center and zoom alone.
C16_DragPans ==
  [][last' = "mouseMove" =>
       \A p \in Pointers, d \in Movements :
         MouseMove(p, d) =>
           /\ zoom' = zoom
           /\ center' = IF dragging
                        THEN _clampCenter(Sub(center, Div(N(d), zoom)))
                        ELSE center]_vars

\* pointer down, then a move by 2 pixels at zoom 1 took the centre of the
\* nested trace from 4 to 2
C16_Witness ==
  /\ last = "mouseMove"
  /\ steps = 2
  /\ dragging
  /\ trace = NestedTrace
  /\ zoom = N(1)
  /\ center = N(2)

\* C17: key 'w' sets zoom to _clampZoom(zoom * 2) and key 's' to
\* _clampZoom(zoom / 2), both leaving center, selection and the drag state
\* alone; a key other than w, a, s, d changes nothing.  (Stated wherever
\* _clampZoom has a value: it needs the extents in Trace.js only.)
C17_KeyZooms ==
  [][last' = "key" =>
       \A key \in Keys :
         (HandleKey(key) /\ (variant = "Canvas" \/ TreeRendered)) =>
           /\ key = "w" =>
                /\ zoom' = clampZoom(Mul(zoom, N(2)))
                /\ UNCHANGED <<center, selection, dragging, dragMoved>>
           /\ key = "s" =>
                /\ zoom' = clampZoom(Div(zoom, N(2)))
                /\ UNCHANGED <<center, selection, dragging, dragMoved>>
           /\ key \notin {"w", "a", "s", "d"} => UNCHANGED state]_vars

\* C18: key 'a' sets center to _clampCenter(center - 0.05 * size / zoom) and
\* key 'd' to _clampCenter(center + 0.05 * size / zoom), leaving zoom alone;
\* when the candidate lies within the extents, the x of every measure (_getLayout of
\* part_000) moves by 0.05 * size pixels, whatever the zoom.
C18_KeyPans ==
  [][(last' = "key" /\ TreeRendered) =>
       \A key \in {"a", "d"} :
         HandleKey(key) =>
           LET pixels == Mul(Rat(5, 100), _getExtents.size)
               updated == IF key = "a" THEN Sub(center, Div(pixels, zoom))
                          ELSE Add(center, Div(pixels, zoom))
           IN  /\ zoom' = zoom
               /\ center' = _clampCenter(updated)
               /\ ( /\ variant = "Canvas"
                    /\ Le(_getExtents.startOffset, updated)
                    /\ Le(updated, _getExtents.endOffset) ) =>
                    \A k \in 1..Len(renderableTrace) :
                      Sub(_getLayout(renderableTrace[k], center', zoom).x,
                          _getLayout(renderableTrace[k], center, zoom).x)
                        = IF key = "a" THEN pixels ELSE Neg(pixels)]_vars

\* at zoom 2 the key 'a' took the centre of the nested trace from 4 to 3.8
C18_Witness ==
  /\ last = "key"
  /\ variant = "Canvas"
  /\ trace = NestedTrace
  /\ zoom = N(2)
  /\ center = Rat(19, 5)

\* C19: nothing is dragged at the start; pointer down sets dragging and
\* clears dragMoved, pointer up clears both, and no other event of part_000
\* writes dragging: dragging tells whether the last pointer down/up event was
\* a pointer down.
C19_DragFollowsPointer ==
  /\ ~dragging
  /\ [][/\ last' = "mouseDown" => (dragging' /\ ~dragMoved')
        /\ last' = "mouseUp" => (~dragging' /\ ~dragMoved')
        /\ (variant = "Canvas" /\ last' \notin {"mouseDown", "mouseUp"}) =>
             dragging' = dragging]_vars

\* pointer down, up and down again: the drag is on
C19_Witness ==
  /\ last = "mouseDown"
  /\ steps = 3
  /\ dragging
  /\ ~dragMoved

\* C20: a pointer move with no horizontal movement while dragging leaves
\* dragMoved as it was, so that a release after it still counts as a click.
C20_StillPointerIsNoDrag ==
  [][last' = "mouseMove" =>
       \A p \in Pointers :
         (MouseMove(p, 0) /\ dragging) => dragMoved' = dragMoved]_vars

\* C21: a wheel event and a key press leave dragging, dragMoved, selection
\* and hovered as they were.
C21_WheelAndKeyKeepDrag ==
  [][last' \in {"wheel", "key"} =>
       UNCHANGED <<dragging, dragMoved, selection, hovered>>]_vars

\* the wheel zoomed in the middle of a drag that had moved
C21_Witness ==
  /\ last = "wheel"
  /\ steps = 3
  /\ dragging
  /\ dragMoved
  /\ zoom = N(2)

\* ---- C27
\* C27: _handleStateChange given no zoom leaves zoom as it was and given no
\* center leaves center as it was (given neither, both); a given value, 0
\* included, is clamped and stored.
C27_StateChangeFrame ==
  [][\A changes \in Changes :
       HandleStateChange(changes) =>
         /\ zoom' = IF changes.zoom.has THEN _clampZoom(changes.zoom.val) ELSE zoom
         /\ center' = IF changes.center.has THEN _clampCenter(changes.center.val)
                       ELSE center]_vars
\* onStateChange({zoom: 0, center: 0}) over the short trace (extents 1..6) moved
\* the view from its initial (5, 1) to the start of the trace at the minimum
\* zoom 8 / 5
C27_Witness ==
  /\ last = "stateChange" /\ steps = 1
  /\ trace = ShortTrace
  /\ center = N(1) /\ zoom = Rat(8, 5)

\* ---- C28
\* the zoom a wheel event asks for, before clamping
WheelZoom(deltaY) == Mul(zoom, Add(N(1), Mul(Rat(5, 1000), N(-deltaY))))
\* the time under the pointer stays where it is when the zoom becomes WheelZoom
WheelCenter(p, deltaY) ==
  LET offset == Div(Sub(N(p[1]), Div(N(viewportWidth), N(2))), N(PX_PER_MS))
  IN  Sub(Add(center, Div(offset, zoom)), Div(offset, WheelZoom(deltaY)))
\* C28: a wheel event whose clamped candidate zoom equals the current zoom
\* changes nothing, zoom and center included; any other wheel event stores the
\* clamped candidate zoom and the clamped candidate center in the same update.
C28_WheelNoOpOrBoth ==
  [][\A p \in Pointers, deltaY \in WheelDeltas :
       HandleWheel(p, deltaY) =>
         IF StrictEq(_clampZoomP0(WheelZoom(deltaY)), zoom)
         THEN UNCHANGED <<state, props, renderedShapes, memoTrace, memoGroups,
                          localStorage, threw>>
         ELSE /\ zoom' = _clampZoomP0(WheelZoom(deltaY))
              /\ center' = _clampCenter(WheelCenter(p, deltaY))]_vars
\* the stored view (3, 64) was zoomed to the limit 100 and a wheel event came
\* with the zoom at the limit
C28_Witness ==
  /\ last = "wheel" /\ steps = 3
  /\ variant = "Canvas" /\ localStorage # NoStorage
  /\ zoom = N(MAX_ZOOM) /\ center = N(3)

\* ---- C29
\* C29: whenever the canvas with its pointer handlers is in the document, the
\* rendered-shapes map holds exactly one entry for each measure of the current
\* layout that is in view under the current center and zoom, with the
\* rectangle _getLayout gives for them, and no other entry.
C29_ShapesAreCurrent ==
  CanvasPresent =>
    /\ \A i \in 1..Len(renderableTrace) :
         LET layout == _getLayout(renderableTrace[i], center, zoom)
             entries == {k \in 1..Len(renderedShapes) :
                           renderedShapes[k].measure = MeasureRef(traceId, i)}
         IN  /\ Cardinality(entries) = IF layout.inView THEN 1 ELSE 0
             /\ \A k \in entries : renderedShapes[k].layout = layout
    /\ \A k \in 1..Len(renderedShapes) :
         /\ renderedShapes[k].measure.tid = traceId
         /\ renderedShapes[k].measure.idx \in 1..Len(renderableTrace)
\* a drag moved the view so that part of the trace left the viewport
C29_Witness ==
  /\ CanvasPresent
  /\ last = "mouseMove" /\ dragMoved
  /\ renderedShapes # <<>>
  /\ Len(renderedShapes) < Len(renderableTrace)
  /\ center # constructor.center

\* ---- C25
\* the state an event leaves is the given one
Leaves(c, z, dg, dm, hv, sel) == state' = <<c, z, dg, dm, hv, sel>>
\* the transition of a key press, as a function of the state it finds
KeyTransition(key) ==
  LET step == Div(Mul(Rat(5, 100), _getExtents.size), zoom)
  IN  CASE key = "w" -> Leaves(center, clampZoom(Mul(zoom, N(2))),
                               dragging, dragMoved, hovered, selection)
        [] key = "s" -> Leaves(center, clampZoom(Div(zoom, N(2))),
                               dragging, dragMoved, hovered, selection)
        [] key = "a" -> Leaves(_clampCenter(Sub(center, step)), zoom,
                               dragging, dragMoved, hovered, selection)
        [] key = "d" -> Leaves(_clampCenter(Add(center, step)), zoom,
                               dragging, dragMoved, hovered, selection)
        [] OTHER -> UNCHANGED state
\* C25: every input event takes the state the previous event left to the
\* result of its own transition applied to exactly that state, every field
\* it does not write keeping its value, or it changes nothing; so a sequence
\* of events ends in the state obtained by applying the transitions one at a
\* time in dispatch order.  (A key press that raises in _getExtents changes
\* nothing.)
C25_EventsApplyInOrder ==
  [][/\ last' = "key" =>
          \A key \in Keys :
            HandleKey(key) =>
              IF ExtentsThrow THEN UNCHANGED state ELSE KeyTransition(key)
     /\ last' = "stateChange" =>
          \A changes \in Changes :
            HandleStateChange(changes) =>
              Leaves(IF changes.center.has THEN _clampCenter(changes.center.val)
                     ELSE center,
                     IF changes.zoom.has THEN _clampZoom(changes.zoom.val)
                     ELSE zoom,
                     IF changes.dragging.has THEN changes.dragging.val
                     ELSE dragging,
                     dragMoved, hovered, selection)
     /\ last' = "mouseDown" =>
          (_mouseDown => Leaves(center, zoom, TRUE, FALSE, hovered, selection))
     /\ last' = "mouseMove" =>
          \A p \in Pointers, movementX \in Movements :
            MouseMove(p, movementX) =>
              IF dragging
              THEN Leaves(_clampCenter(Sub(center, Div(N(movementX), zoom))),
                          zoom, TRUE, TRUE,
                          _getIntersectingMeasure(p[1], p[2]), selection)
              ELSE UNCHANGED state
     /\ last' = "mouseUp" =>
          \A p \in Pointers :
            MouseUp(p) =>
              Leaves(center, zoom, FALSE, FALSE, hovered,
                     IF dragMoved THEN selection
                     ELSE _getIntersectingMeasure(p[1], p[2]))
     /\ last' = "wheel" =>
          \A p \in Pointers, deltaY \in WheelDeltas :
            HandleWheel(p, deltaY) =>
              IF StrictEq(_clampZoomP0(WheelZoom(deltaY)), zoom)
              THEN UNCHANGED state
              ELSE Leaves(_clampCenter(WheelCenter(p, deltaY)),
                          _clampZoomP0(WheelZoom(deltaY)),
                          dragging, dragMoved, hovered, selection)]_vars
\* three presses of 'w' doubled the zoom from 1 to 8 over the nested trace,
\* each from the zoom the one before had left
C25_Witness ==
  /\ last = "key" /\ steps = 3
  /\ localStorage = NoStorage /\ trace = NestedTrace /\ traceId = 0
  /\ zoom = N(8) /\ center = constructor.center /\ ~dragging

\* ------------------------------------------------------------ clamp runs

\* _clampZoom applied again and again to a candidate zoom
MaxClamps == 2
ClampWidths == {0, 8, 1000}
ClampTraces == {PointTrace, NestedTrace, ShortTrace}
ClampInputs ==
  {NaN, NegInf, N(-1), N(0), Rat(1, 10), N(1), N(50), N(MAX_ZOOM), N(200), PosInf}

ClampInit ==
  /\ variant \in {"Trace", "Canvas"}
  /\ trace \in ClampTraces
  /\ traceId = 0
  /\ viewportWidth \in ClampWidths
  /\ renderer = "canvas"
  /\ persistView = FALSE
  /\ localStorage = NoStorage
  /\ mounted = TRUE
  /\ threw = FALSE
  /\ center = N(0)
  /\ zoom \in ClampInputs
  /\ dragging = FALSE
  /\ dragMoved = FALSE
  /\ hovered = NoMeasure
  /\ selection = NoMeasure
  /\ memoTrace = _transformTrace(EmptyMemo, 0, trace)
  /\ memoGroups = EmptyMemo
  /\ renderedShapes = <<>>
  /\ last = "input"
  /\ steps = 0
  /\ NoColors

\* zoom becomes this._clampZoom(zoom)
ClampStep ==
  /\ steps < MaxClamps
  /\ steps' = steps + 1
  /\ zoom' = clampZoom(zoom)
  /\ last' = "clampZoom"
  /\ UNCHANGED <<props, traceId, localStorage, mounted, colors, threw, center, dragging,
                 dragMoved, hovered, selection, memoTrace, memoGroups,
                 renderedShapes>>

ClampNext == ClampStep

ClampSpec == ClampInit /\ [][ClampNext]_vars

\* C15: applying _clampZoom to a value it returned gives that value again,
\* whatever the candidate, the viewport width and the extents.
C15_ClampZoomIdempotent ==
  [][(last = "clampZoom" /\ last' = "clampZoom") => zoom' = zoom]_vars

\* Trace.js clamped twice in a viewport of 1000 over extents of size 5, where
\* the minimum zoom 200 lies above MAX_ZOOM
C15_Witness ==
  /\ last = "clampZoom"
  /\ steps = 2
  /\ variant = "Trace"
  /\ zoom = N(200)

\* ------------------------------------------------------------ projection runs

\* _getLayout applied to the measures of a layout, one after the other, in a
\* given viewport state
ProjectWidths == {8, 1000}
ProjectCenters == {NaN, N(-5), N(0), N(3), Rat(19, 5), N(50)}
ProjectZooms == {MIN_ZOOM, N(1), N(2), N(MAX_ZOOM)}

ProjectInit ==
  /\ variant = "Canvas"
  /\ trace \in ClampTraces
  /\ traceId = 0
  /\ viewportWidth \in ProjectWidths
  /\ renderer = "canvas"
  /\ persistView = FALSE
  /\ localStorage = NoStorage
  /\ mounted = TRUE
  /\ threw = FALSE
  /\ center \in ProjectCenters
  /\ zoom \in ProjectZooms
  /\ dragging = FALSE
  /\ dragMoved = FALSE
  /\ hovered = NoMeasure
  /\ selection = NoMeasure
  /\ memoTrace = _transformTrace(EmptyMemo, 0, trace)
  /\ memoGroups = EmptyMemo
  /\ renderedShapes = <<>>
  /\ last = "input"
  /\ steps = 0
  /\ NoColors

\* const layout = this._getLayout(renderableTrace[index]), kept with its measure
Project ==
  /\ steps < Len(renderableTrace)
  /\ steps' = steps + 1
  /\ renderedShapes' =
       Append(renderedShapes,
              [layout |-> _getLayout(renderableTrace[steps + 1], center, zoom),
               measure |-> MeasureRef(traceId, steps + 1)])
  /\ last' = "getLayout"
  /\ UNCHANGED <<props, state, traceId, localStorage, mounted, colors, threw,
                 memoTrace, memoGroups>>

ProjectNext == Project

ProjectSpec == ProjectInit /\ [][ProjectNext]_vars

\* C22: for the measure rm in the viewport state (center, zoom), _getLayout
\* returns x = (startTime - center) * zoom + viewportWidth / 2,
\* y = stackIndex * (BAR_HEIGHT + BAR_Y_GUTTER),
\* width = max(duration * zoom - BAR_X_GUTTER, 0), which is never negative, and
\* inView = ~(x + width < 0 \/ viewportWidth < x); the state stays as it was.
C22_GetLayoutFormula ==
  [][last' = "getLayout" =>
       LET got == renderedShapes'[Len(renderedShapes')].layout
           rm == renderableTrace[steps + 1]
           x == Add(Mul(Sub(N(rm.measure.startTime), center), zoom),
                    Div(N(viewportWidth), N(2)))
           width == MathMax(Sub(Mul(N(rm.measure.duration), zoom),
                                N(BAR_X_GUTTER)), N(0))
       IN  /\ got.x = x
           /\ got.y = N(rm.stackIndex * (BAR_HEIGHT + BAR_Y_GUTTER))
           /\ got.width = width
           /\ Le(N(0), got.width)
           /\ got.inView = ~(Lt(Add(x, width), N(0)) \/ Lt(N(viewportWidth), x))
           /\ UNCHANGED <<props, state>>]_vars

\* the zero-duration measure projected at zoom 2: a bar of width 0
C22_Witness ==
  /\ last = "getLayout"
  /\ trace = PointTrace
  /\ zoom = N(2)
  /\ renderedShapes[1].layout.width = N(0)

\* ------------------------------------------------------------ hit-test runs

\* _getIntersectingMeasure asked about points inside and outside the canvas,
\* right after the canvas was drawn in a given viewport state
QueryPoints == {<<4, 0>>, <<6, 20>>, <<4, 16>>, <<7, 40>>, <<-2, 0>>, <<9, 20>>}

HitInit ==
  /\ variant = "Canvas"
  /\ trace \in ClampTraces
  /\ traceId = 0
  /\ viewportWidth = 8
  /\ renderer = "canvas"
  /\ persistView = FALSE
  /\ localStorage = NoStorage
  /\ mounted = TRUE
  /\ threw = FALSE
  /\ center \in ProjectCenters
  /\ zoom \in ProjectZooms
  /\ dragging = FALSE
  /\ dragMoved = FALSE
  /\ hovered = NoMeasure
  /\ selection = NoMeasure
  /\ memoTrace = _transformTrace(EmptyMemo, 0, trace)
  /\ memoGroups = EmptyMemo
  /\ renderedShapes = _renderCanvas(<<>>, renderableTrace, 0, center, zoom)
  /\ last = "input"
  /\ steps = 0
  /\ NoColors

\* const hovered = this._getIntersectingMeasure(event) for an event at p
Query(p) ==
  /\ last = "input"
  /\ hovered' = _getIntersectingMeasure(p[1], p[2])
  /\ last' = "hitTest"
  /\ steps' = steps + 1
  /\ UNCHANGED <<props, traceId, localStorage, mounted, colors, threw, center, zoom,
                 dragging, dragMoved, selection, memoTrace, memoGroups,
                 renderedShapes>>

HitNext == \E p \in QueryPoints : Query(p)

HitSpec == HitInit /\ [][HitNext]_vars

\* the rectangle of the k-th measure of the layout in the current state
\* contains the point p
CurrentlyContains(k, p) ==
  Contains(_getLayout(renderableTrace[k], center, zoom), N(p[1]), N(p[2]))

\* p lies outside the canvas, which is viewportWidth wide and starts at 0
OutsideViewport(p) == p[1] < 0 \/ p[1] > viewportWidth \/ p[2] < 0

\* C23: the hit-test returns a measure only if the measure's current rectangle
\* contains the point, none if no rectangle contains it, and none for a point
\* outside the viewport.
C23_HitTestContainment ==
  [][last' = "hitTest" =>
       \A p \in QueryPoints :
         Query(p) =>
           /\ hovered' # NoMeasure => CurrentlyContains(hovered'.idx, p)
           /\ (\A k \in 1..Len(renderableTrace) : ~CurrentlyContains(k, p)) =>
                hovered' = NoMeasure
           /\ OutsideViewport(p) => hovered' = NoMeasure]_vars

\* the measure hit comes first among the measures whose rectangles contain p
\* by stackIndex, then by startTime
FirstAmongHits(hit, p) ==
  \A k \in 1..Len(renderableTrace) :
    CurrentlyContains(k, p) =>
      LET r == renderableTrace[hit.idx]
          h == renderableTrace[k]
      IN  \/ r.stackIndex < h.stackIndex
          \/ /\ r.stackIndex = h.stackIndex
             /\ r.measure.startTime <= h.measure.startTime

\* C24: when the rectangles of several measures contain the point, the
\* hit-test returns the first of them by ascending stackIndex, then ascending
\* startTime.
C24_HitTestTieBreak ==
  [][last' = "hitTest" =>
       \A p \in QueryPoints :
         (Query(p) /\ hovered' # NoMeasure) => FirstAmongHits(hovered', p)]_vars

\* with a NaN center the rectangles of B and C (both in lane 1) contain the
\* point and B, which starts first, was returned
C24_Witness ==
  /\ last = "hitTest"
  /\ trace = NestedTrace
  /\ center = NaN
  /\ hovered = MeasureRef(0, 2)
  /\ CurrentlyContains(2, <<6, 20>>)
  /\ CurrentlyContains(3, <<6, 20>>)

\* -------- claims about the layout engine (LayoutSpec)

\* the layout has been computed; laid is its output
LaidOut == last = "layout"
laid == memoTrace.result
EndTime(rm) == rm.measure.startTime + rm.measure.duration
\* the half-open intervals [startTime, startTime + duration) of a and b meet
Overlap(a, b) ==
  LET lo == IF a.measure.startTime >= b.measure.startTime
            THEN a.measure.startTime ELSE b.measure.startTime
      hi == IF EndTime(a) <= EndTime(b) THEN EndTime(a) ELSE EndTime(b)
  IN  lo < hi

\* C11: no two measures of the layout with the same stackIndex have
\* overlapping half-open intervals [startTime, startTime + duration).
C11_NoOverlapInLane ==
  LaidOut =>
    \A i, j \in 1..Len(laid) :
      (i # j /\ laid[i].stackIndex = laid[j].stackIndex) => ~Overlap(laid[i], laid[j])

\* a lane was used again: two measures of positive duration share lane 1 while
\* a third one, overlapping both, lies in lane 0
C11_Witness ==
  /\ LaidOut
  /\ \E i, j, k \in 1..Len(laid) :
       /\ i # j
       /\ laid[i].stackIndex = 1 /\ laid[j].stackIndex = 1
       /\ laid[i].measure.duration > 0 /\ laid[j].measure.duration > 0
       /\ laid[k].stackIndex = 0
       /\ Overlap(laid[k], laid[i]) /\ Overlap(laid[k], laid[j])

\* the number of lanes the layout uses (lanes are numbered from 0)
LanesUsed ==
  IF Len(laid) = 0 THEN 0
  ELSE 1 + CHOOSE l \in 0..Len(laid) :
             /\ \E i \in 1..Len(laid) : laid[i].stackIndex = l
             /\ \A i \in 1..Len(laid) : laid[i].stackIndex <= l

\* colouring c of the layout's measures puts no two overlapping ones together
ProperColouring(c) ==
  \A i, j \in 1..Len(laid) :
    (i # j /\ Overlap(laid[i], laid[j])) => c[i] # c[j]

\* the chromatic number of the interval graph of the measures
MinLanes ==
  CHOOSE k \in 0..Len(laid) :
    /\ \E c \in [1..Len(laid) -> 1..k] : ProperColouring(c)
    /\ \A k2 \in 0..(k - 1) :
         ~\E c \in [1..Len(laid) -> 1..k2] : ProperColouring(c)

\* C12: the layout uses as few lanes as any assignment without overlap: its
\* greatest stackIndex is that of the last of the minimum number of lanes
\* required by a colouring of the interval graph of the input.
C12_LaneMinimality == LaidOut => LanesUsed = MinLanes

\* laid[j] is placed before laid[i]: startTime ascending, then duration
\* descending, then original order (which the output keeps among equal starts)
PlacedBefore(j, i) ==
  \/ laid[j].measure.startTime < laid[i].measure.startTime
  \/ /\ laid[j].measure.startTime = laid[i].measure.startTime
     /\ \/ laid[j].measure.duration > laid[i].measure.duration
        \/ laid[j].measure.duration = laid[i].measure.duration /\ j < i

\* the measures placed in lane l before laid[i]
InLaneBefore(l, i) ==
  {j \in 1..Len(laid) : PlacedBefore(j, i) /\ laid[j].stackIndex = l}

\* lane l holds a measure placed before laid[i] and the last such measure has
\* ended by the start of laid[i]
FreeFor(l, i) ==
  /\ InLaneBefore(l, i) # {}
  /\ LET lastIn == CHOOSE j \in InLaneBefore(l, i) :
                     \A j2 \in InLaneBefore(l, i) : j2 = j \/ PlacedBefore(j2, j)
     IN  EndTime(laid[lastIn]) <= laid[i].measure.startTime

\* the number of lanes opened before laid[i] is placed
OpenedBefore(i) ==
  Cardinality({laid[j].stackIndex : j \in {j2 \in 1..Len(laid) : PlacedBefore(j2, i)}})

StackIndices == [k \in 1..Len(laid) |-> laid[k].stackIndex]
Names == [k \in 1..Len(laid) |-> laid[k].measure.name]

\* C13: every measure lies in the lowest-indexed lane that was free when it
\* was placed (placing in startTime ascending, duration descending order), or
\* in a new lane when none was free; A(0,10), B(2,3), C(6,2) get 0, 1, 1 and
\* two identical measures (0,5) get 0 and 1 in original order.
C13_LowestFreeLane ==
  LaidOut =>
    /\ \A i \in 1..Len(laid) :
         LET free == {l \in 0..(OpenedBefore(i) - 1) : FreeFor(l, i)}
         IN  IF free = {} THEN laid[i].stackIndex = OpenedBefore(i)
             ELSE /\ laid[i].stackIndex \in free
                  /\ \A l \in free : laid[i].stackIndex <= l
    /\ trace = NestedTrace => (Names = <<"A", "B", "C">> /\ StackIndices = <<0, 1, 1>>)
    /\ trace = TwinTrace => (Names = <<"t1", "t2">> /\ StackIndices = <<0, 1>>)

\* the layout of A, B, C ran and C went into B's lane
C13_Witness ==
  /\ LaidOut
  /\ trace = NestedTrace
  /\ laid[3].stackIndex = 1

\* C14: a zero-duration measure and another measure starting at the same
\* instant lie in the same lane (the lane the first of them was given, free at
\* that instant before either was placed).
C14_ZeroDurationSharesLane ==
  LaidOut =>
    \A i, j \in 1..Len(laid) :
      ( /\ i # j
        /\ laid[i].measure.duration = 0
        /\ laid[j].measure.startTime = laid[i].measure.startTime )
      => laid[j].stackIndex = laid[i].stackIndex


\* ---- C26
Grouped == last = "groups"
groups == memoGroups.result
\* how many times measure m occurs in the sequence s of measures
Occurrences(s, m) == Cardinality({k \in 1..Len(s) : s[k] = m})
\* s is t with some items left out, the others in t's order
KeepsOrderOf(s, t) ==
  \E f \in [1..Len(s) -> 1..Len(t)] :
    /\ \A i \in 1..Len(s) : t[f[i]] = s[i]
    /\ \A i, j \in 1..Len(s) : i < j => f[i] < f[j]
Without(t, k) == [i \in 1..(Len(t) - 1) |-> IF i < k THEN t[i] ELSE t[i + 1]]
\* the layout stored under key g in the Map gs, None when there is no such key
LayoutOf(gs, g) ==
  IF \E n \in 1..Len(gs) : gs[n].group = g
  THEN (CHOOSE e \in {gs[n] : n \in 1..Len(gs)} : e.group = g).trace
  ELSE None
\* C26: _transformTraceGroups partitions the trace by group: the keys are
\* distinct, every measure occurs in the groups as often as in the input and
\* only under its own group (measures without a group under one key), the
\* measures collected for a group keep the input's relative order, each
\* group's layout is the layout of its measures alone, and removing a measure
\* of one group leaves the layout of every other group as it was.
C26_GroupsPartitionTrace ==
  Grouped =>
    LET collected == groupedTraces(trace) IN
    /\ \A a, b \in 1..Len(groups) : groups[a].group = groups[b].group => a = b
    /\ \A k \in 1..Len(trace) : \E n \in 1..Len(groups) : groups[n].group = trace[k].group
    /\ \A n \in 1..Len(groups) :
         /\ \A i \in 1..Len(groups[n].trace) :
              groups[n].trace[i].measure.group = groups[n].group
         /\ \A m \in GroupedMeasures :
              m.group = groups[n].group =>
                Cardinality({i \in 1..Len(groups[n].trace) : groups[n].trace[i].measure = m})
                  = Occurrences(trace, m)
         /\ collected[n].group = groups[n].group
         /\ KeepsOrderOf(collected[n].trace, trace)
         /\ groups[n].trace = transformTrace(collected[n].trace)
    /\ \A k \in 1..Len(trace) :
         \A n \in 1..Len(groups) :
           groups[n].group # trace[k].group =>
             LayoutOf(transformTraceGroups(Without(trace, k)), groups[n].group)
               = groups[n].trace
C26_Witness ==
  /\ Grouped
  /\ trace = <<Measure("m", 0, 2, None), Measure("m", 0, 2, "g1"), Measure("m", 1, 2, None)>>
  /\ LayoutOf(groups, "g1") = <<[measure |-> Measure("m", 0, 2, "g1"), stackIndex |-> 0]>>
  /\ LayoutOf(groups, None)[2].stackIndex = 1

====
